---- MODULE Spec2Model ----
(***************************************************************************)
(* State-machine model of the encrypted sync transport ApiSocket           *)
(* (sources/sync/storageTypes.ts): connection management, listener         *)
(* fan-out, message dispatch, the two acknowledged RPC shapes, the machine *)
(* metadata update, send and request; of the versioned entity fields and   *)
(* the agent state schema; and of the batch encryptors                     *)
(* (sources/sync/encryption/encryptor.ts).                                 *)
(***************************************************************************)
EXTENDS Integers, Sequences, FiniteSets, TLC

(* ------------------------------ bounds -------------------------------- *)

MaxCalls == 2          \* RPC calls issued in one behaviour
MaxBody == 2           \* distinct payload bodies
MaxListeners == 2      \* distinct listener functions of each kind
MaxVersion == 2        \* highest version of a versioned field
MaxUpdates == 2        \* versioned updates received in one behaviour
MaxItems == 2          \* items of one encryption batch
MaxRequests == 3       \* distinct permission request ids

(* ----------------------------- input sets ----------------------------- *)

Tokens == {"t1", "t2"}
Endpoints == {"e1"}
Keys == {1, 2}
Bodies == 1..MaxBody
ListenerIds == 1..MaxListeners
Events == {"update", "ephemeral"}
ScopeIds == {"s1", "m1"}
Methods == {"ping"}
ServerErrors == {"", "E1"}          \* error of an {ok: false} answer, "" = absent

Statuses == {"disconnected", "connecting", "connected", "error"}

(* ------------------------ values on the wire -------------------------- *)

\* A payload value: a plaintext body, or a body sealed under a key.
Plain(b) == [cipher |-> FALSE, key |-> 0, body |-> b]
Sealed(k, b) == [cipher |-> TRUE, key |-> k, body |-> b]
Null == Plain(0)

Plaintexts == {Plain(b) : b \in Bodies}
ServerResults == {Sealed(k, b) : k \in Keys, b \in Bodies}

\* ApiEncryption.encryptRaw: serialise and seal one value under the key.
encryptRaw(k, p) == Sealed(k, p.body)

\* ApiEncryption.decryptRaw: open one value; null when it does not open.
decryptRaw(k, c) ==
    IF c.cipher /\ c.key = k /\ c.body # 0 THEN Plain(c.body) ELSE Null

(* ------------------------------ state --------------------------------- *)

VARIABLES
    socket,                \* this.socket (exists = FALSE models null); resumable:
                           \* the server holds a session of it that a reconnect can resume
    config,                \* this.config (set = FALSE models null)
    encryption,            \* this.encryption (0 models null)
    messageHandlers,       \* this.messageHandlers: event -> handler id, 0 = no entry
    reconnectedListeners,  \* this.reconnectedListeners, in insertion order
    statusListeners,       \* this.statusListeners, in insertion order
    currentStatus,         \* this.currentStatus
    calls,                 \* the RPC promises created so far
    replaced,              \* event -> the handler displaced last (replaced or removed)
    lastOp,                \* the operation or event that ran last
    delivered,             \* the acknowledgment or timeout it delivered, if any
    outcome,               \* how the call it settled ended, as its caller sees it
    thrown,                \* message of the error it raised to its caller ("" = none)
    emitted,               \* what it emitted on the socket
    invoked,               \* the listener/handler invocations it made, in order
    transitions,           \* the status changes it made, in order
    returned,              \* what it returned to its caller, if it returned a value
    fetched,               \* the HTTP requests it issued
    heard,                 \* listener -> the status it was told last while registered
    serverVersion,         \* the metadata version the server holds for the machine
    metaCall,              \* the updateMachineMetadata request in flight, if any
    entity,                \* versioned entity fields: field -> [version, value]
    arrived,               \* the versioned updates received so far, in arrival order
    agentState,            \* Session.agentState as parsed last
    batch,                 \* the encryption batch at hand
    credentials,           \* the token the credential store holds ("" = none)
    opened,                \* the sockets io() created that were not disconnect()ed
    screen                 \* machine screen: one invocation of handleStartSession

vars == <<socket, config, encryption, messageHandlers, reconnectedListeners,
          statusListeners, currentStatus, calls, replaced, lastOp, delivered, outcome,
          thrown,
          emitted,
          invoked, transitions, returned, fetched, heard, serverVersion, metaCall,
          entity,
          arrived, agentState, batch, credentials, opened, screen>>

NoSocket == [exists |-> FALSE, endpoint |-> "", token |-> "",
             connected |-> FALSE, resumable |-> FALSE, failed |-> FALSE]
NoConfig == [set |-> FALSE, endpoint |-> "", token |-> ""]
NoEncryption == 0
NoAck == [id |-> 0, timedOut |-> FALSE, ok |-> FALSE, result |-> Null, error |-> ""]
NoOutcome == [id |-> 0, state |-> "", value |-> Null, error |-> ""]

\* socket.timeout(15000)
DaemonTimeout == 15000

\* the errors raised by the runtime and by the socket library
TypeError == "TypeError"
TimeoutError == "operation has timed out"

Op(name, a, n) == [name |-> name, a |-> a, n |-> n]

NoReturn == [kind |-> "", result |-> "", version |-> 0]
NoAgentState == [parsed |-> FALSE, requests |-> {}, completedRequests |-> {}]
NoBatch == [scheme |-> "", key |-> 0, by |-> 0, stage |-> "", plain |-> <<>>,
            cipher |-> <<>>, out |-> <<>>, thrown |-> FALSE]

\* the versioned fields of Session and of Machine
Fields == {"session.metadata", "session.agentState",
           "machine.metadata", "machine.daemonState"}

\* the ids a spawned session may have
SessionIds == {"s1", "s2"}

\* One invocation of handleStartSession before it starts: where it stands,
\* the sessionId of the spawn result, the attempts counted by its closure,
\* the sessions in storage, whether a timer is set, and what it did so far
\* (storage checks, navigations and their route, alerts shown, the error it
\* rethrew, the time its timers took).
NoInvocation ==
    [pc |-> "idle", sessionId |-> "", attempts |-> 0, sessions |-> {},
     timer |-> FALSE, checks |-> 0, navigations |-> 0, route |-> "",
     alerts |-> <<>>, rethrown |-> "", elapsed |-> 0]

\* TokenStorage.getCredentials() returning null
NoCredentials == ""

NoMetaCall == [pending |-> FALSE, live |-> FALSE, expected |-> 0]

\* What an operation of the transport leaves alone outside the transport, and
\* the per-step records it leaves empty.
Apart ==
    /\ returned' = NoReturn
    /\ fetched' = <<>>
    /\ UNCHANGED <<serverVersion, entity, arrived, agentState, batch, credentials, screen>>

\* The same for an operation that neither creates nor closes a socket.
Outside == Apart /\ UNCHANGED opened

Quiet == Outside /\ UNCHANGED metaCall

\* The acknowledgment of a request of a socket that was disconnect()ed never arrives.
OrphanMeta(c) == IF c.pending THEN [c EXCEPT !.live = FALSE] ELSE c

\* The status each listener was told last, after the invocations inv.
Hear(h, inv) ==
    [l \in ListenerIds |->
        LET told == {i \in 1..Len(inv) : inv[i].who = "status" /\ inv[i].id = l}
        IN  IF told = {} THEN h[l]
            ELSE inv[CHOOSE i \in told : \A j \in told : j <= i].arg]

(* --------------------------- helper operators -------------------------- *)

\* Set.add: insertion order is kept, an element already present stays put.
SetAdd(s, x) == IF \E i \in 1..Len(s) : s[i] = x THEN s ELSE Append(s, x)

\* Set.delete
SetDelete(s, x) == SelectSeq(s, LAMBDA y : y # x)

Elems(s) == {s[i] : i \in 1..Len(s)}

StatusCall(l, s) == [who |-> "status", id |-> l, arg |-> s]
ReconnectedCall(l) == [who |-> "reconnected", id |-> l, arg |-> ""]
HandlerCall(h, e) == [who |-> "handler", id |-> h, arg |-> e]

\* updateStatus without the test for a change
updateStatusAlways(cur, listeners, status) ==
    [status |-> status,
     invoked |-> [i \in 1..Len(listeners) |-> StatusCall(listeners[i], status)],
     transitions |-> IF cur # status THEN << <<cur, status>> >> ELSE <<>>]

\* updateStatus: listeners are told only when the value changes.
updateStatus(cur, listeners, status) ==
    IF cur # status
    THEN [status |-> status,
          invoked |-> [i \in 1..Len(listeners) |-> StatusCall(listeners[i], status)],
          transitions |-> << <<cur, status>> >>]
    ELSE [status |-> cur, invoked |-> <<>>, transitions |-> <<>>]

\* io(endpoint, {auth: {token}, ...}): a fresh socket, not yet connected.
io(cfg) == [exists |-> TRUE, endpoint |-> cfg.endpoint, token |-> cfg.token,
            connected |-> FALSE, resumable |-> FALSE, failed |-> FALSE]

\* connect() without the test for an existing socket
connectAlways(cfg, sock, cur, listeners) ==
    IF ~cfg.set
    THEN [socket |-> sock, status |-> cur, invoked |-> <<>>, transitions |-> <<>>,
          created |-> 0]
    ELSE LET u == updateStatus(cur, listeners, "connecting")
         IN  [socket |-> io(cfg), status |-> u.status,
              invoked |-> u.invoked, transitions |-> u.transitions, created |-> 1]

\* connect() that returns early only for a socket that is connected
connectUnlessConnected(cfg, sock, cur, listeners) ==
    IF ~cfg.set \/ (sock.exists /\ sock.connected)
    THEN [socket |-> sock, status |-> cur, invoked |-> <<>>, transitions |-> <<>>,
          created |-> 0]
    ELSE LET u == updateStatus(cur, listeners, "connecting")
         IN  [socket |-> io(cfg), status |-> u.status,
              invoked |-> u.invoked, transitions |-> u.transitions, created |-> 1]

\* connect(): the effect on (socket, status) and the notifications made.
connect(cfg, sock, cur, listeners) ==
    IF ~cfg.set \/ sock.exists
    THEN [socket |-> sock, status |-> cur, invoked |-> <<>>, transitions |-> <<>>,
          created |-> 0]
    ELSE LET u == updateStatus(cur, listeners, "connecting")
         IN  [socket |-> io(cfg), status |-> u.status,
              invoked |-> u.invoked, transitions |-> u.transitions, created |-> 1]

\* disconnect() that forgets to clear this.socket
disconnectKeepSocket(sock, cur, listeners) ==
    LET u == updateStatus(cur, listeners, "disconnected")
    IN  [socket |-> [sock EXCEPT !.connected = FALSE], status |-> u.status,
         invoked |-> u.invoked, transitions |-> u.transitions,
         closed |-> IF sock.exists THEN 1 ELSE 0]

\* disconnect() that clears the socket without updating the status
disconnectSilent(sock, cur, listeners) ==
    [socket |-> NoSocket, status |-> cur, invoked |-> <<>>, transitions |-> <<>>,
     closed |-> IF sock.exists THEN 1 ELSE 0]

\* disconnect(): socket.disconnect() makes a connected socket fire its own
\* 'disconnect' event first, whose handler calls updateStatus('disconnected');
\* the trailing updateStatus('disconnected') is then a no-op.
disconnect(sock, cur, listeners) ==
    LET u == updateStatus(cur, listeners, "disconnected")
    IN  [socket |-> NoSocket, status |-> u.status,
         invoked |-> u.invoked, transitions |-> u.transitions,
         closed |-> IF sock.exists THEN 1 ELSE 0]

\* a disconnect() that tears the message handlers down with the socket
handlersCleared(handlers) == [e \in DOMAIN handlers |-> 0]

\* What disconnect() leaves of this.messageHandlers: it clears this.socket
\* only, the registrations stay.
handlersKept(handlers) == handlers

\* Acknowledgments of a socket that was disconnect()ed never arrive.
Orphan(cs) ==
    [i \in 1..Len(cs) |->
        IF cs[i].state = "pending" THEN [cs[i] EXCEPT !.live = FALSE] ELSE cs[i]]

(* ------------------------------- Init --------------------------------- *)

Init ==
    /\ socket = NoSocket
    /\ config = NoConfig
    /\ encryption = NoEncryption
    /\ messageHandlers = [e \in Events |-> 0]
    /\ reconnectedListeners = <<>>
    /\ statusListeners = <<>>
    /\ currentStatus = "disconnected"
    /\ calls = <<>>
    /\ replaced = [e \in Events |-> 0]
    /\ lastOp = Op("new", "", 0)
    /\ delivered = NoAck
    /\ outcome = NoOutcome
    /\ thrown = ""
    /\ emitted = <<>>
    /\ invoked = <<>>
    /\ transitions = <<>>
    /\ returned = NoReturn
    /\ fetched = <<>>
    /\ heard = [l \in ListenerIds |-> ""]
    /\ serverVersion = 1
    /\ metaCall = NoMetaCall
    /\ entity = [f \in Fields |-> [version |-> 0, value |-> 0]]
    /\ arrived = <<>>
    /\ agentState = NoAgentState
    /\ batch = NoBatch
    /\ credentials = NoCredentials
    /\ opened = 0
    /\ screen = NoInvocation

(* ----------------------- connection management ------------------------ *)

Initialize(endpoint, token, key) ==
    LET cfg == [set |-> TRUE, endpoint |-> endpoint, token |-> token]
        c == connect(cfg, socket, currentStatus, statusListeners)
    IN  /\ config' = cfg
        /\ encryption' = key
        /\ socket' = c.socket
        /\ currentStatus' = c.status
        /\ invoked' = c.invoked
        /\ transitions' = c.transitions
        /\ heard' = Hear(heard, invoked')
        /\ lastOp' = Op("initialize", token, key)
        /\ opened' = opened + c.created
        /\ Apart /\ UNCHANGED metaCall
        /\ thrown' = ""
        /\ delivered' = NoAck /\ outcome' = NoOutcome
        /\ emitted' = <<>>
        /\ UNCHANGED <<messageHandlers, reconnectedListeners, statusListeners, calls,
                       replaced>>

Connect ==
    LET c == connect(config, socket, currentStatus, statusListeners)
    IN  /\ socket' = c.socket
        /\ currentStatus' = c.status
        /\ invoked' = c.invoked
        /\ transitions' = c.transitions
        /\ heard' = Hear(heard, invoked')
        /\ lastOp' = Op("connect", "", 0)
        /\ opened' = opened + c.created
        /\ Apart /\ UNCHANGED metaCall
        /\ thrown' = ""
        /\ delivered' = NoAck /\ outcome' = NoOutcome
        /\ emitted' = <<>>
        /\ UNCHANGED <<config, encryption, messageHandlers, reconnectedListeners,
                       statusListeners, calls, replaced>>

Disconnect ==
    LET d == disconnect(socket, currentStatus, statusListeners)
    IN  /\ socket' = d.socket
        /\ currentStatus' = d.status
        /\ invoked' = d.invoked
        /\ transitions' = d.transitions
        /\ heard' = Hear(heard, invoked')
        /\ calls' = IF socket.exists THEN Orphan(calls) ELSE calls
        /\ lastOp' = Op("disconnect", "", 0)
        /\ opened' = opened - d.closed
        /\ Apart
        /\ metaCall' = IF socket.exists THEN OrphanMeta(metaCall) ELSE metaCall
        /\ thrown' = ""
        /\ delivered' = NoAck /\ outcome' = NoOutcome
        /\ emitted' = <<>>
        /\ messageHandlers' = IF socket.exists THEN handlersKept(messageHandlers)
                              ELSE messageHandlers
        /\ UNCHANGED <<config, encryption, reconnectedListeners, statusListeners,
                       replaced>>

\* updateToken(newToken)
UpdateToken(newToken) ==
    /\ lastOp' = Op("updateToken", newToken, 0)
    /\ Apart
    /\ thrown' = ""
    /\ delivered' = NoAck /\ outcome' = NoOutcome
    /\ emitted' = <<>>
    /\ UNCHANGED <<encryption, reconnectedListeners, statusListeners, replaced>>
    /\ messageHandlers' = IF config.set /\ config.token # newToken /\ socket.exists
                          THEN handlersKept(messageHandlers)
                          ELSE messageHandlers
    /\ IF config.set /\ config.token # newToken
       THEN /\ config' = [config EXCEPT !.token = newToken]
            /\ IF socket.exists
               THEN LET d == disconnect(socket, currentStatus, statusListeners)
                        c == connect(config', d.socket, d.status, statusListeners)
                    IN  /\ socket' = c.socket
                        /\ currentStatus' = c.status
                        /\ invoked' = d.invoked \o c.invoked
                        /\ transitions' = d.transitions \o c.transitions
                        /\ heard' = Hear(heard, invoked')
                        /\ calls' = Orphan(calls)
                        /\ metaCall' = OrphanMeta(metaCall)
                        /\ opened' = opened - d.closed + c.created
               ELSE /\ invoked' = <<>>
                    /\ transitions' = <<>>
                    /\ heard' = Hear(heard, invoked')
                    /\ UNCHANGED <<socket, currentStatus, calls, metaCall, opened>>
       ELSE /\ invoked' = <<>>
            /\ transitions' = <<>>
            /\ heard' = Hear(heard, invoked')
            /\ UNCHANGED <<config, socket, currentStatus, calls, metaCall, opened>>

(* ------------------------- listener management ------------------------ *)

\* onReconnected(listener)
OnReconnected(l) ==
    /\ reconnectedListeners' = SetAdd(reconnectedListeners, l)
    /\ lastOp' = Op("onReconnected", "", l)
    /\ Quiet
    /\ thrown' = ""
    /\ delivered' = NoAck /\ outcome' = NoOutcome
    /\ emitted' = <<>>
    /\ invoked' = <<>>
    /\ transitions' = <<>>
    /\ heard' = Hear(heard, invoked')
    /\ UNCHANGED <<socket, config, encryption, messageHandlers, statusListeners,
                   currentStatus, calls, replaced>>

\* the function returned by onReconnected(listener)
OffReconnected(l) ==
    /\ l \in Elems(reconnectedListeners)
    /\ reconnectedListeners' = SetDelete(reconnectedListeners, l)
    /\ lastOp' = Op("offReconnected", "", l)
    /\ Quiet
    /\ thrown' = ""
    /\ delivered' = NoAck /\ outcome' = NoOutcome
    /\ emitted' = <<>>
    /\ invoked' = <<>>
    /\ transitions' = <<>>
    /\ heard' = Hear(heard, invoked')
    /\ UNCHANGED <<socket, config, encryption, messageHandlers, statusListeners,
                   currentStatus, calls, replaced>>

\* onStatusChange without the replay
StatusReplayMissing(l, cur) == <<>>

\* The replay made by onStatusChange at registration.
StatusReplay(l, cur) == <<StatusCall(l, cur)>>

\* onStatusChange(listener)
OnStatusChange(l) ==
    /\ statusListeners' = SetAdd(statusListeners, l)
    /\ invoked' = StatusReplay(l, currentStatus)
    /\ lastOp' = Op("onStatusChange", "", l)
    /\ Quiet
    /\ thrown' = ""
    /\ delivered' = NoAck /\ outcome' = NoOutcome
    /\ emitted' = <<>>
    /\ transitions' = <<>>
    /\ heard' = Hear(heard, invoked')
    /\ UNCHANGED <<socket, config, encryption, messageHandlers, reconnectedListeners,
                   currentStatus, calls, replaced>>

\* the function returned by onStatusChange(listener)
OffStatusChange(l) ==
    /\ l \in Elems(statusListeners)
    /\ statusListeners' = SetDelete(statusListeners, l)
    /\ lastOp' = Op("offStatusChange", "", l)
    /\ Quiet
    /\ thrown' = ""
    /\ delivered' = NoAck /\ outcome' = NoOutcome
    /\ emitted' = <<>>
    /\ invoked' = <<>>
    /\ transitions' = <<>>
    /\ heard' = [heard EXCEPT ![l] = ""]
    /\ UNCHANGED <<socket, config, encryption, messageHandlers, reconnectedListeners,
                   currentStatus, calls, replaced>>

(* --------------------------- message handling ------------------------- *)

\* a registration that keeps the handler already present
MapSetIfAbsent(m, e, h) == IF m[e] = 0 THEN [m EXCEPT ![e] = h] ELSE m

\* Map.set(event, handler)
MapSet(m, e, h) == [m EXCEPT ![e] = h]

\* Map.delete(event)
MapDelete(m, e) == [m EXCEPT ![e] = 0]

\* onMessage(event, handler)
OnMessage(e, h) ==
    /\ messageHandlers' = MapSet(messageHandlers, e, h)
    /\ replaced' = [replaced EXCEPT ![e] = messageHandlers[e]]
    /\ lastOp' = Op("onMessage", e, h)
    /\ Quiet
    /\ thrown' = ""
    /\ delivered' = NoAck /\ outcome' = NoOutcome
    /\ emitted' = <<>>
    /\ invoked' = <<>>
    /\ transitions' = <<>>
    /\ heard' = Hear(heard, invoked')
    /\ UNCHANGED <<socket, config, encryption, reconnectedListeners, statusListeners,
                   currentStatus, calls>>

\* an unsubscribe function that removes only the handler it was returned for
unsubscribeOwn(m, e, h) == IF m[e] = h THEN MapDelete(m, e) ELSE m

\* the function returned by onMessage(event, handler):
\* () => this.messageHandlers.delete(event)
unsubscribe(m, e, h) == MapDelete(m, e)

\* offMessage(event, handler): this.messageHandlers.delete(event)
offMessage(m, e, h) == MapDelete(m, e)

\* The function returned by onMessage(e, h) is called: it exists once h was
\* registered for e, as the handler in place or as one that was displaced.
UnsubscribeMessage(e, h) ==
    /\ h # 0
    /\ h = messageHandlers[e] \/ h = replaced[e]
    /\ messageHandlers' = unsubscribe(messageHandlers, e, h)
    /\ replaced' = [replaced EXCEPT ![e] = messageHandlers[e]]
    /\ lastOp' = Op("unsubscribeMessage", e, h)
    /\ Quiet
    /\ thrown' = ""
    /\ delivered' = NoAck /\ outcome' = NoOutcome
    /\ emitted' = <<>>
    /\ invoked' = <<>>
    /\ transitions' = <<>>
    /\ heard' = Hear(heard, invoked')
    /\ UNCHANGED <<socket, config, encryption, reconnectedListeners, statusListeners,
                   currentStatus, calls>>

\* offMessage(event, handler)
OffMessage(e, h) ==
    /\ messageHandlers' = offMessage(messageHandlers, e, h)
    /\ replaced' = [replaced EXCEPT ![e] = messageHandlers[e]]
    /\ lastOp' = Op("offMessage", e, h)
    /\ Quiet
    /\ thrown' = ""
    /\ delivered' = NoAck /\ outcome' = NoOutcome
    /\ emitted' = <<>>
    /\ invoked' = <<>>
    /\ transitions' = <<>>
    /\ heard' = Hear(heard, invoked')
    /\ UNCHANGED <<socket, config, encryption, reconnectedListeners, statusListeners,
                   currentStatus, calls>>

(* ---------------------------- socket events --------------------------- *)

\* a 'connect' handler that does not look at socket.recovered
ReconnectedFanOutAlways(recovered, listeners) ==
    [i \in 1..Len(listeners) |-> ReconnectedCall(listeners[i])]

\* a socket created without automatic reconnection
ReconnectsNever(failed) == ~failed

\* io options reconnection: true, reconnectionAttempts: Infinity: the socket
\* keeps trying to connect however often it failed.
Reconnects(failed) == TRUE

\* The reconnected listeners told by the 'connect' handler.
ReconnectedFanOut(recovered, listeners) ==
    IF ~recovered
    THEN [i \in 1..Len(listeners) |-> ReconnectedCall(listeners[i])]
    ELSE <<>>

\* socket.on('connect'): the socket is not connected when it fires; recovered
\* can only be true when the server still holds a session of this socket.
SocketConnect(recovered) ==
    /\ socket.exists /\ ~socket.connected
    /\ Reconnects(socket.failed)
    /\ recovered => socket.resumable
    /\ LET u == updateStatus(currentStatus, statusListeners, "connected")
       IN  /\ currentStatus' = u.status
           /\ invoked' = u.invoked \o ReconnectedFanOut(recovered, reconnectedListeners)
           /\ transitions' = u.transitions
           /\ heard' = Hear(heard, invoked')
    /\ socket' = [socket EXCEPT !.connected = TRUE, !.resumable = TRUE,
                                !.failed = FALSE]
    /\ lastOp' = Op("connect_event", IF recovered THEN "recovered" ELSE "fresh", 0)
    /\ Quiet
    /\ thrown' = ""
    /\ delivered' = NoAck /\ outcome' = NoOutcome
    /\ emitted' = <<>>
    /\ UNCHANGED <<config, encryption, messageHandlers, reconnectedListeners,
                   statusListeners, calls, replaced>>

\* socket.on('disconnect'): fired by a connected socket that loses its transport
SocketDisconnect ==
    /\ socket.exists /\ socket.connected
    /\ LET u == updateStatus(currentStatus, statusListeners, "disconnected")
       IN  /\ currentStatus' = u.status
           /\ invoked' = u.invoked
           /\ transitions' = u.transitions
           /\ heard' = Hear(heard, invoked')
    /\ socket' = [socket EXCEPT !.connected = FALSE, !.failed = TRUE]
    /\ lastOp' = Op("disconnect_event", "", 0)
    /\ Quiet
    /\ thrown' = ""
    /\ delivered' = NoAck /\ outcome' = NoOutcome
    /\ emitted' = <<>>
    /\ UNCHANGED <<config, encryption, messageHandlers, reconnectedListeners,
                   statusListeners, calls, replaced>>

\* socket.on('connect_error'): a connection attempt of the socket failed
SocketConnectError ==
    /\ socket.exists /\ ~socket.connected
    /\ LET u == updateStatus(currentStatus, statusListeners, "error")
       IN  /\ currentStatus' = u.status
           /\ invoked' = u.invoked
           /\ transitions' = u.transitions
           /\ heard' = Hear(heard, invoked')
    /\ lastOp' = Op("connect_error_event", "", 0)
    /\ Quiet
    /\ thrown' = ""
    /\ delivered' = NoAck /\ outcome' = NoOutcome
    /\ emitted' = <<>>
    /\ socket' = [socket EXCEPT !.failed = TRUE]
    /\ UNCHANGED <<config, encryption, messageHandlers, reconnectedListeners,
                   statusListeners, calls, replaced>>

\* socket.on('error'): may fire whatever the state of the socket
SocketError ==
    /\ socket.exists
    /\ LET u == updateStatus(currentStatus, statusListeners, "error")
       IN  /\ currentStatus' = u.status
           /\ invoked' = u.invoked
           /\ transitions' = u.transitions
           /\ heard' = Hear(heard, invoked')
    /\ lastOp' = Op("error_event", "", 0)
    /\ Quiet
    /\ thrown' = ""
    /\ delivered' = NoAck /\ outcome' = NoOutcome
    /\ emitted' = <<>>
    /\ UNCHANGED <<socket, config, encryption, messageHandlers, reconnectedListeners,
                   statusListeners, calls, replaced>>

\* The dispatch made by the onAny callback: the one handler of the event, if any.
Dispatch(handlers, e) ==
    IF handlers[e] # 0 THEN <<HandlerCall(handlers[e], e)>> ELSE <<>>

\* socket.onAny: an inbound event of a connected socket
SocketAny(e) ==
    /\ socket.exists /\ socket.connected
    /\ invoked' = Dispatch(messageHandlers, e)
    /\ lastOp' = Op("onAny", e, 0)
    /\ Quiet
    /\ thrown' = ""
    /\ delivered' = NoAck /\ outcome' = NoOutcome
    /\ emitted' = <<>>
    /\ transitions' = <<>>
    /\ heard' = Hear(heard, invoked')
    /\ UNCHANGED <<socket, config, encryption, messageHandlers, reconnectedListeners,
                   statusListeners, currentStatus, calls, replaced>>

(* --------------------------------- RPC -------------------------------- *)

\* The message handed to emitWithAck: timeout = 0 means no timeout was set.
RpcMessage(id, scope, method, key, params, timeout) ==
    [event |-> "rpc-call", id |-> id, method |-> scope \o ":" \o method,
     params |-> encryptRaw(key, params), timeout |-> timeout]

\* What a call put on the socket, next to the arguments it was called with.
Emission(msg, scope, method, params) ==
    [msg |-> msg, scope |-> scope, method |-> method, plain |-> params]

NewCall(kind) == [kind |-> kind, state |-> "pending", live |-> TRUE]

\* rpc() sending its params as they are
rpcStartPlain(id, sessionId, method, params) ==
    IF ~socket.exists \/ encryption = NoEncryption
    THEN [thrown |-> TypeError, emitted |-> <<>>]
    ELSE [thrown |-> "",
          emitted |-> <<Emission([RpcMessage(id, sessionId, method, encryption,
                                             params, 0) EXCEPT !.params = params],
                                 sessionId, method, params)>>]

\* rpc() with the precondition check of daemonRpc()
rpcStartChecked(id, sessionId, method, params) ==
    IF ~socket.exists
    THEN [thrown |-> "Socket not connected", emitted |-> <<>>]
    ELSE IF encryption = NoEncryption
    THEN [thrown |-> "Encryption not initialized", emitted |-> <<>>]
    ELSE [thrown |-> "",
          emitted |-> <<Emission(RpcMessage(id, sessionId, method, encryption, params, 0),
                                sessionId, method, params)>>]

\* What rpc() does before it suspends: the error it fails with at once, or
\* the message it emits. Reading emitWithAck of a null socket, or encryptRaw
\* of a null encryption, raises a TypeError.
rpcStart(id, sessionId, method, params) ==
    IF ~socket.exists \/ encryption = NoEncryption
    THEN [thrown |-> TypeError, emitted |-> <<>>]
    ELSE [thrown |-> "",
          emitted |-> <<Emission(RpcMessage(id, sessionId, method, encryption, params, 0),
                                sessionId, method, params)>>]

\* What daemonRpc() does before it suspends.
daemonRpcStart(id, machineId, method, params) ==
    IF ~socket.exists
    THEN [thrown |-> "Socket not connected", emitted |-> <<>>]
    ELSE IF encryption = NoEncryption
    THEN [thrown |-> "Encryption not initialized", emitted |-> <<>>]
    ELSE [thrown |-> "",
          emitted |-> <<Emission(RpcMessage(id, machineId, method, encryption,
                                            params, DaemonTimeout),
                                 machineId, method, params)>>]

\* rpc(): the continuation after the acknowledgment arrived
rpcSettle(key, ack) ==
    IF ack.ok
    THEN [state |-> "resolved",
          value |-> IF key = NoEncryption THEN Null ELSE decryptRaw(key, ack.result),
          error |-> ""]
    ELSE [state |-> "rejected", value |-> Null, error |-> "RPC call failed"]

\* daemonRpc() whose catch block replaces every error by the generic one
daemonRpcSettleGeneric(key, ack) ==
    IF ~ack.timedOut /\ ack.ok
    THEN [state |-> "resolved", value |-> decryptRaw(key, ack.result), error |-> ""]
    ELSE [state |-> "rejected", value |-> Null, error |-> "Daemon RPC call failed"]

\* daemonRpc(): the continuation after the acknowledgment arrived or the
\* wait timed out (the catch block rethrows what it caught)
daemonRpcSettle(key, ack) ==
    IF ack.timedOut
    THEN [state |-> "rejected", value |-> Null, error |-> TimeoutError]
    ELSE IF ack.ok
    THEN [state |-> "resolved", value |-> decryptRaw(key, ack.result), error |-> ""]
    ELSE [state |-> "rejected", value |-> Null,
          error |-> IF ack.error # "" THEN ack.error ELSE "Daemon RPC call failed"]

\* acknowledgments matched to the oldest pending call instead of by packet id
AckTargetOldest(cs, id) ==
    IF \E j \in 1..Len(cs) : cs[j].state = "pending"
    THEN CHOOSE j \in 1..Len(cs) :
            /\ cs[j].state = "pending"
            /\ \A k \in 1..(j - 1) : cs[k].state # "pending"
    ELSE id

\* emitWithAck: the promise an acknowledgment with this packet id resolves
AckTarget(cs, id) == id

Settled(c, s) == [c EXCEPT !.state = s.state]
Outcome(id, s) == [id |-> id, state |-> s.state, value |-> s.value, error |-> s.error]

\* rpc(sessionId, method, params)
Rpc(sessionId, method, params) ==
    LET id == Len(calls) + 1
        r == rpcStart(id, sessionId, method, params)
    IN  /\ r.thrown = "" => id <= MaxCalls
        /\ thrown' = r.thrown
        /\ emitted' = r.emitted
        /\ calls' = IF r.thrown = "" THEN Append(calls, NewCall("rpc"))
                    ELSE calls
        /\ lastOp' = Op("rpc", "", 0)
        /\ Quiet
        /\ delivered' = NoAck
        /\ outcome' = NoOutcome
        /\ invoked' = <<>>
        /\ transitions' = <<>>
        /\ heard' = Hear(heard, invoked')
        /\ UNCHANGED <<socket, config, encryption, messageHandlers,
                       reconnectedListeners, statusListeners, currentStatus, replaced>>

\* daemonRpc(machineId, method, params)
DaemonRpc(machineId, method, params) ==
    LET id == Len(calls) + 1
        r == daemonRpcStart(id, machineId, method, params)
    IN  /\ r.thrown = "" => id <= MaxCalls
        /\ thrown' = r.thrown
        /\ emitted' = r.emitted
        /\ calls' = IF r.thrown = "" THEN Append(calls, NewCall("daemon"))
                    ELSE calls
        /\ lastOp' = Op("daemonRpc", "", 0)
        /\ Quiet
        /\ delivered' = NoAck
        /\ outcome' = NoOutcome
        /\ invoked' = <<>>
        /\ transitions' = <<>>
        /\ heard' = Hear(heard, invoked')
        /\ UNCHANGED <<socket, config, encryption, messageHandlers,
                       reconnectedListeners, statusListeners, currentStatus, replaced>>

\* The server's acknowledgment of packet id arrives on the connected socket
\* and the suspended call continues.
Ack(id, ok, result, error) ==
    LET ack == [id |-> id, timedOut |-> FALSE, ok |-> ok, result |-> result,
                error |-> error]
        i == AckTarget(calls, id)
        s == IF calls[i].kind = "rpc" THEN rpcSettle(encryption, ack)
             ELSE daemonRpcSettle(encryption, ack)
    IN  /\ socket.exists /\ socket.connected
        /\ id \in 1..Len(calls)
        /\ calls[id].state = "pending" /\ calls[id].live
        /\ calls[i].state = "pending"
        /\ calls' = [calls EXCEPT ![i] = Settled(@, s)]
        /\ outcome' = Outcome(i, s)
        /\ delivered' = ack
        /\ lastOp' = Op("ack", "", id)
        /\ Quiet
        /\ thrown' = ""
        /\ emitted' = <<>>
        /\ invoked' = <<>>
        /\ transitions' = <<>>
        /\ heard' = Hear(heard, invoked')
        /\ UNCHANGED <<socket, config, encryption, messageHandlers,
                       reconnectedListeners, statusListeners, currentStatus, replaced>>

\* a timeout on every acknowledged emit
TimesOutAlways(kind) == TRUE

\* Which calls carry a timeout: daemonRpc() emits through socket.timeout(15000),
\* rpc() through socket.emitWithAck directly.
TimesOut(kind) == kind = "daemon"

\* socket.timeout(15000): no acknowledgment of packet id arrived in time
Timeout(id) ==
    LET ack == [id |-> id, timedOut |-> TRUE, ok |-> FALSE, result |-> Null,
                error |-> ""]
    IN  /\ id \in 1..Len(calls)
        /\ TimesOut(calls[id].kind)
        /\ calls[id].state = "pending"
        /\ calls' = [calls EXCEPT ![id] = Settled(@, daemonRpcSettle(encryption, ack))]
        /\ outcome' = Outcome(id, daemonRpcSettle(encryption, ack))
        /\ delivered' = ack
        /\ lastOp' = Op("timeout", "", id)
        /\ Quiet
        /\ thrown' = ""
        /\ emitted' = <<>>
        /\ invoked' = <<>>
        /\ transitions' = <<>>
        /\ heard' = Hear(heard, invoked')
        /\ UNCHANGED <<socket, config, encryption, messageHandlers,
                       reconnectedListeners, statusListeners, currentStatus, replaced>>


(* ---------------------- machine metadata update ---------------------- *)

\* socket.timeout(10000)
MetadataTimeoutMs == 10000

\* updateMachineMetadata() that only tests for a socket object
metadataStartAnySocket(expectedVersion) ==
    IF ~socket.exists
    THEN [thrown |-> "Socket not connected", emitted |-> <<>>]
    ELSE [thrown |-> "",
          emitted |-> <<[event |-> "machine-update-metadata",
                         expectedVersion |-> expectedVersion,
                         timeout |-> MetadataTimeoutMs]>>]

\* What updateMachineMetadata() does before it suspends.
metadataStart(expectedVersion) ==
    IF ~socket.exists \/ ~socket.connected
    THEN [thrown |-> "Socket not connected", emitted |-> <<>>]
    ELSE [thrown |-> "",
          emitted |-> <<[event |-> "machine-update-metadata",
                         expectedVersion |-> expectedVersion,
                         timeout |-> MetadataTimeoutMs]>>]

\* The server's handling of 'machine-update-metadata': a compare-and-swap on
\* the version it holds.
ServerCompareAndSwap(stored, expectedVersion) ==
    IF stored = expectedVersion
    THEN [stored |-> stored + 1,
          answer |-> [kind |-> "metadata", result |-> "success", version |-> stored + 1]]
    ELSE [stored |-> stored,
          answer |-> [kind |-> "metadata", result |-> "version-mismatch",
                      version |-> stored]]

\* updateMachineMetadata({machineId, metadata, expectedVersion}), one request
\* in flight at a time
UpdateMachineMetadata(expectedVersion) ==
    LET r == metadataStart(expectedVersion)
    IN  /\ r.thrown = "" => ~metaCall.pending
        /\ thrown' = r.thrown
        /\ emitted' = r.emitted
        /\ metaCall' = IF r.thrown = ""
                       THEN [pending |-> TRUE, live |-> TRUE, expected |-> expectedVersion]
                       ELSE metaCall
        /\ lastOp' = Op("updateMachineMetadata", "", expectedVersion)
        /\ Outside
        /\ delivered' = NoAck
        /\ outcome' = NoOutcome
        /\ invoked' = <<>>
        /\ transitions' = <<>>
        /\ heard' = Hear(heard, invoked')
        /\ UNCHANGED <<socket, config, encryption, messageHandlers, reconnectedListeners,
                       statusListeners, currentStatus, calls, replaced>>

\* The server handles the request and its acknowledgment arrives: the call
\* returns the server's answer as it is.
MetadataAck ==
    LET cas == ServerCompareAndSwap(serverVersion, metaCall.expected)
    IN  /\ socket.exists /\ socket.connected
        /\ metaCall.pending /\ metaCall.live
        /\ serverVersion' = cas.stored
        /\ returned' = cas.answer
        /\ metaCall' = NoMetaCall
        /\ lastOp' = Op("metadataAck", "", metaCall.expected)
        /\ thrown' = ""
        /\ fetched' = <<>>
        /\ emitted' = <<>>
        /\ delivered' = NoAck
        /\ outcome' = NoOutcome
        /\ invoked' = <<>>
        /\ transitions' = <<>>
        /\ heard' = Hear(heard, invoked')
        /\ UNCHANGED <<socket, config, encryption, messageHandlers, reconnectedListeners,
                       statusListeners, currentStatus, calls, replaced, entity, arrived,
                       agentState, batch, credentials, opened, screen>>

\* socket.timeout(10000): no acknowledgment arrived in time
MetadataTimeout ==
    /\ metaCall.pending
    /\ metaCall' = NoMetaCall
    /\ thrown' = TimeoutError
    /\ lastOp' = Op("metadataTimeout", "", metaCall.expected)
    /\ Outside
    /\ emitted' = <<>>
    /\ delivered' = NoAck
    /\ outcome' = NoOutcome
    /\ invoked' = <<>>
    /\ transitions' = <<>>
    /\ heard' = Hear(heard, invoked')
    /\ UNCHANGED <<socket, config, encryption, messageHandlers, reconnectedListeners,
                   statusListeners, currentStatus, calls, replaced>>

\* Another client updates the machine metadata on the server.
ServerUpdate ==
    /\ serverVersion < MaxVersion
    /\ serverVersion' = serverVersion + 1
    /\ lastOp' = Op("serverUpdate", "", 0)
    /\ returned' = NoReturn
    /\ fetched' = <<>>
    /\ thrown' = ""
    /\ emitted' = <<>>
    /\ delivered' = NoAck
    /\ outcome' = NoOutcome
    /\ invoked' = <<>>
    /\ transitions' = <<>>
    /\ heard' = Hear(heard, invoked')
    /\ UNCHANGED <<socket, config, encryption, messageHandlers, reconnectedListeners,
                   statusListeners, currentStatus, calls, replaced, metaCall, entity,
                   arrived, agentState, batch, credentials, opened, screen>>

(* ----------------------- versioned entity fields ---------------------- *)

\* What a step outside the transport leaves alone, and the per-step records of
\* the transport it leaves empty.
Idle ==
    /\ emitted' = <<>>
    /\ delivered' = NoAck
    /\ outcome' = NoOutcome
    /\ invoked' = <<>>
    /\ transitions' = <<>>
    /\ UNCHANGED <<socket, config, encryption, messageHandlers, reconnectedListeners,
                   statusListeners, currentStatus, calls, replaced, heard,
                   serverVersion, metaCall, credentials, opened>>

\* a gate that lets the update that arrives last win
acceptUpdateLatest(stored, version, value) ==
    [version |-> version, value |-> value]

\* "accept incoming value and bump stored version only if incoming version >
\* stored version, else discard"
acceptUpdate(stored, version, value) ==
    IF version > stored.version
    THEN [version |-> version, value |-> value]
    ELSE stored

\* An update of one versioned field (metadataVersion, agentStateVersion,
\* daemonStateVersion and the value they guard) arrives.
ApplyUpdate(f, version, value) ==
    /\ Len(arrived) < MaxUpdates
    /\ entity' = [entity EXCEPT ![f] = acceptUpdate(entity[f], version, value)]
    /\ arrived' = Append(arrived, [field |-> f, version |-> version, value |-> value])
    /\ lastOp' = Op("applyUpdate", f, version)
    /\ thrown' = ""
    /\ returned' = NoReturn
    /\ fetched' = <<>>
    /\ Idle
    /\ UNCHANGED <<agentState, batch, screen>>

(* ------------------------------ encryptors ----------------------------- *)

Schemes == {"secretbox", "box", "aes"}

\* the batches of plaintext items
Batches == UNION {[1..n -> Bodies] : n \in 0..MaxItems}

\* One ciphertext: the scheme and key that lock it, the item inside, and
\* whether its bytes are still the ones the encryption produced.
Locked(scheme, lock, body) ==
    [scheme |-> scheme, lock |-> lock, body |-> body, intact |-> TRUE]

\* a decrypted item that is null
NullItem == 0

\* sodium.crypto_box_seed_keypair(seed): the key pair is a function of the seed
crypto_box_seed_keypair(seed) == [publicKey |-> 2 * seed, privateKey |-> 2 * seed + 1]

\* the native primitives, by their contracts
encryptSecretBox(item, key) == Locked("secretbox", key, item)

decryptSecretBox(c, key) ==
    IF c.intact /\ c.scheme = "secretbox" /\ c.lock = key THEN c.body ELSE NullItem

encryptBox(item, publicKey) == Locked("box", publicKey, item)

decryptBox(c, privateKey) ==
    IF c.intact /\ c.scheme = "box" /\ c.lock + 1 = privateKey THEN c.body ELSE NullItem

\* JSON text: the serialised item, the empty string, or text that is no JSON
JSONstringify(item) == [json |-> TRUE, empty |-> FALSE, item |-> item]
EmptyText == [json |-> FALSE, empty |-> TRUE, item |-> 0]
NoJSON == [json |-> FALSE, empty |-> FALSE, item |-> 0]

JSONparse(text) ==
    IF text.json THEN [threw |-> FALSE, item |-> text.item]
    ELSE [threw |-> TRUE, item |-> NullItem]

\* crypto.encryptAES(jsonString, keyB64), base64-decoded to bytes
encryptAES(text, key) == Locked("aes", key, text.item)

\* How crypto.decryptAES may fail on bytes it cannot open.
AesFailures == {"throws", "empty", "nojson"}

\* crypto.decryptAES(encodeBase64(item), keyB64)
decryptAES(c, key, failure) ==
    IF c.intact /\ c.scheme = "aes" /\ c.lock = key
    THEN [threw |-> FALSE, text |-> JSONstringify(c.body)]
    ELSE [threw |-> failure = "throws",
          text |-> IF failure = "nojson" THEN NoJSON ELSE EmptyText]

\* SecretBoxEncryption.encrypt / decrypt: item by item, in order
SecretBoxEncrypt(secretKey, data) ==
    [i \in 1..Len(data) |-> encryptSecretBox(data[i], secretKey)]

SecretBoxDecrypt(secretKey, data) ==
    [out |-> [i \in 1..Len(data) |-> decryptSecretBox(data[i], secretKey)],
     thrown |-> FALSE]

\* BoxEncryption.encrypt that seals to the private key
BoxEncryptToPrivate(seed, data) ==
    [i \in 1..Len(data) |-> encryptBox(data[i], crypto_box_seed_keypair(seed).privateKey)]

\* BoxEncryption.encrypt / decrypt of an instance constructed from seed
BoxEncrypt(seed, data) ==
    [i \in 1..Len(data) |-> encryptBox(data[i], crypto_box_seed_keypair(seed).publicKey)]

BoxDecrypt(seed, data) ==
    [out |-> [i \in 1..Len(data) |->
                 decryptBox(data[i], crypto_box_seed_keypair(seed).privateKey)],
     thrown |-> FALSE]

\* the body of the AES decrypt loop without its try/catch
aes256DecryptItemNoCatch(secretKey, item, failure) ==
    LET d == decryptAES(item, secretKey, failure)
    IN  IF d.threw THEN [threw |-> TRUE, item |-> NullItem]
        ELSE IF d.text.empty THEN [threw |-> FALSE, item |-> NullItem]
        ELSE JSONparse(d.text)

\* The body of the loop of AES256Encryption.decrypt: whatever decryptAES or
\* JSON.parse throws is caught and becomes null.
aes256DecryptItem(secretKey, item, failure) ==
    LET d == decryptAES(item, secretKey, failure)
    IN  IF d.threw THEN [threw |-> FALSE, item |-> NullItem]
        ELSE IF d.text.empty THEN [threw |-> FALSE, item |-> NullItem]
        ELSE [threw |-> FALSE,
              item |-> IF JSONparse(d.text).threw THEN NullItem
                       ELSE JSONparse(d.text).item]

\* AES256Encryption.decrypt: an exception that escapes an item ends the call
AES256Decrypt(secretKey, data, failure) ==
    LET r == [i \in 1..Len(data) |-> aes256DecryptItem(secretKey, data[i], failure)]
    IN  IF \E i \in 1..Len(data) : r[i].threw
        THEN [out |-> <<>>, thrown |-> TRUE]
        ELSE [out |-> [i \in 1..Len(data) |-> r[i].item], thrown |-> FALSE]

\* What a step of an encryptor leaves alone.
Crypto ==
    /\ returned' = NoReturn
    /\ fetched' = <<>>
    /\ Idle
    /\ UNCHANGED <<entity, arrived, agentState, screen>>

\* encrypt(items) of a SecretBoxEncryption (key) or a BoxEncryption (seed)
Encrypt(scheme, key, items) ==
    /\ scheme \in {"secretbox", "box"}
    /\ batch.stage \in {"", "decrypted"}
    /\ batch' = [NoBatch EXCEPT !.scheme = scheme, !.key = key, !.stage = "encrypted",
                                !.plain = items,
                                !.cipher = IF scheme = "secretbox"
                                           THEN SecretBoxEncrypt(key, items)
                                           ELSE BoxEncrypt(key, items)]
    /\ lastOp' = Op("encrypt", scheme, key)
    /\ thrown' = ""
    /\ Crypto

\* A batch of AES-256-GCM ciphertexts of items, as crypto.encryptAES produced
\* them under the key, is at hand.
ReceiveAes(key, items) ==
    /\ batch.stage \in {"", "decrypted"}
    /\ batch' = [NoBatch EXCEPT !.scheme = "aes", !.key = key, !.stage = "encrypted",
                                !.plain = items,
                                !.cipher = [i \in 1..Len(items) |->
                                              encryptAES(JSONstringify(items[i]), key)]]
    /\ lastOp' = Op("receiveAes", "aes", key)
    /\ thrown' = ""
    /\ Crypto

\* The bytes of one ciphertext of the batch get damaged in storage or transit.
Corrupt(i) ==
    /\ batch.stage = "encrypted"
    /\ i \in 1..Len(batch.cipher)
    /\ batch.cipher[i].intact
    /\ batch' = [batch EXCEPT !.cipher[i].intact = FALSE]
    /\ lastOp' = Op("corrupt", batch.scheme, i)
    /\ thrown' = ""
    /\ Crypto

\* decrypt(batch) by an instance of the batch's scheme constructed from the
\* key (seed) by
Decrypt(by, failure) ==
    LET r == CASE batch.scheme = "secretbox" -> SecretBoxDecrypt(by, batch.cipher)
               [] batch.scheme = "box" -> BoxDecrypt(by, batch.cipher)
               [] OTHER -> AES256Decrypt(by, batch.cipher, failure)
    IN  /\ batch.stage = "encrypted"
        /\ batch' = [batch EXCEPT !.stage = "decrypted", !.by = by, !.out = r.out,
                                  !.thrown = r.thrown]
        /\ lastOp' = Op("decrypt", batch.scheme, by)
        /\ thrown' = IF r.thrown THEN "Error" ELSE ""
        /\ Crypto

(* --------------------------- send and request -------------------------- *)

\* what a caller may pass as options: a method, and an Authorization header
\* of its own ("" = none)
RequestOptions ==
    << [method |-> "GET", authorization |-> ""],
       [method |-> "POST", authorization |-> ""],
       [method |-> "POST", authorization |-> "Basic caller"] >>

Paths == {"/v1/sessions"}

True == [kind |-> "boolean", result |-> "true", version |-> 0]

\* send() that drops the event unless the socket is connected
sendIfConnected(sock, event, data) ==
    IF ~sock.exists
    THEN [thrown |-> TypeError, emitted |-> <<>>, returned |-> NoReturn]
    ELSE IF ~sock.connected
    THEN [thrown |-> "", emitted |-> <<>>, returned |-> True]
    ELSE [thrown |-> "",
          emitted |-> <<[event |-> event, data |-> data, ack |-> FALSE, timeout |-> 0]>>,
          returned |-> True]

\* send(event, data): this.socket!.emit(event, data); return true. Calling
\* emit of a null socket raises a TypeError.
send(sock, event, data) ==
    IF ~sock.exists
    THEN [thrown |-> TypeError, emitted |-> <<>>, returned |-> NoReturn]
    ELSE [thrown |-> "",
          emitted |-> <<[event |-> event, data |-> data, ack |-> FALSE, timeout |-> 0]>>,
          returned |-> True]

Send(event, data) ==
    LET r == send(socket, event, data)
    IN  /\ thrown' = r.thrown
        /\ emitted' = r.emitted
        /\ returned' = r.returned
        /\ lastOp' = Op("send", event, 0)
        /\ fetched' = <<>>
        /\ delivered' = NoAck
        /\ outcome' = NoOutcome
        /\ invoked' = <<>>
        /\ transitions' = <<>>
        /\ heard' = Hear(heard, invoked')
        /\ UNCHANGED <<socket, config, encryption, messageHandlers, reconnectedListeners,
                       statusListeners, currentStatus, calls, replaced, serverVersion,
                       metaCall, entity, arrived, agentState, batch, credentials, opened, screen>>

\* {'Authorization': `Bearer ${credentials.token}`, ...options?.headers}: an
\* entry of the caller spread after it replaces it
MergeHeaders(token, options) ==
    IF options.authorization # "" THEN options.authorization ELSE "Bearer " \o token

\* request(path, options)
request(cfg, store, path, options) ==
    IF ~cfg.set
    THEN [thrown |-> "SyncSocket not initialized", fetched |-> <<>>]
    ELSE IF store = NoCredentials
    THEN [thrown |-> "No authentication credentials", fetched |-> <<>>]
    ELSE [thrown |-> "",
          fetched |-> <<[url |-> cfg.endpoint \o path,
                         method |-> options.method,
                         authorization |-> MergeHeaders(store, options)]>>]

Request(path, o) ==
    LET r == request(config, credentials, path, RequestOptions[o])
    IN  /\ thrown' = r.thrown
        /\ fetched' = r.fetched
        /\ lastOp' = Op("request", path, o)
        /\ returned' = NoReturn
        /\ emitted' = <<>>
        /\ delivered' = NoAck
        /\ outcome' = NoOutcome
        /\ invoked' = <<>>
        /\ transitions' = <<>>
        /\ heard' = Hear(heard, invoked')
        /\ UNCHANGED <<socket, config, encryption, messageHandlers, reconnectedListeners,
                       statusListeners, currentStatus, calls, replaced, serverVersion,
                       metaCall, entity, arrived, agentState, batch, credentials, opened, screen>>

\* The credential store gets a token (login) or loses it (logout).
SetCredentials(token) ==
    /\ credentials' = token
    /\ lastOp' = Op("setCredentials", token, 0)
    /\ thrown' = ""
    /\ returned' = NoReturn
    /\ fetched' = <<>>
    /\ emitted' = <<>>
    /\ delivered' = NoAck
    /\ outcome' = NoOutcome
    /\ invoked' = <<>>
    /\ transitions' = <<>>
    /\ UNCHANGED <<socket, config, encryption, messageHandlers, reconnectedListeners,
                   statusListeners, currentStatus, calls, replaced, heard,
                   serverVersion, metaCall, opened>>
    /\ UNCHANGED <<entity, arrived, agentState, batch, screen>>

(* ------------------------------ agent state ---------------------------- *)

RequestIds == 1..MaxRequests

\* z.enum(['canceled', 'denied', 'approved'])
CompletedStatuses == {"canceled", "denied", "approved"}

\* The agent states a peer may send: the ids of requests, the ids of
\* completedRequests and the status its completed entries carry.
RawAgentStates ==
    [requests : SUBSET RequestIds, completedRequests : SUBSET RequestIds,
     status : CompletedStatuses \cup {"pending"}]

\* AgentStateSchema: each map is checked entry by entry for its shape; the
\* two maps are not compared with each other.
AgentStateSchema(raw) ==
    raw.completedRequests # {} => raw.status \in CompletedStatuses

\* AgentStateSchema.parse(raw) of a received agent state
ParseAgentState(raw) ==
    /\ agentState' = IF AgentStateSchema(raw)
                     THEN [parsed |-> TRUE, requests |-> raw.requests,
                           completedRequests |-> raw.completedRequests]
                     ELSE agentState
    /\ thrown' = IF AgentStateSchema(raw) THEN "" ELSE "ZodError"
    /\ lastOp' = Op("parseAgentState", raw.status, Cardinality(raw.requests))
    /\ returned' = NoReturn
    /\ fetched' = <<>>
    /\ Idle
    /\ UNCHANGED <<entity, arrived, batch, screen>>

(* ---------------------- machine screen: start session ------------------ *)

\* const pollInterval = 100; const maxAttempts = 20
pollInterval == 100
maxAttempts == 20

\* an error text sent by the daemon (result.error)
DaemonError == "Session spawn timeout"

\* what spawnRemoteSession may fail with: the errors of daemonRpc
SpawnErrors ==
    {"Socket not connected", "Encryption not initialized", TimeoutError,
     DaemonError, "Daemon RPC call failed"}

NoSessionId == "Session spawning failed - no session ID returned."

\* error.message.includes('timeout') / includes('Socket not connected')
IncludesTimeout(message) == message \in {DaemonError}
IncludesNotConnected(message) == message = "Socket not connected"

\* the message of the error alert
errorMessage(message) ==
    IF IncludesTimeout(message)
    THEN "Session startup timed out. The machine may be slow or the daemon may not be responding."
    ELSE IF IncludesNotConnected(message)
    THEN "Not connected to server. Check your internet connection."
    ELSE "Failed to start session. Make sure the daemon is running on the target machine."

Alert(title, message) == [title |-> title, message |-> message]

SessionStarted ==
    Alert("Session started", "The session was started but may take a moment to appear.")

\* the catch block: Modal.alert('Error', errorMessage); throw error
catch(s, message) ==
    [s EXCEPT !.alerts = Append(@, Alert("Error", errorMessage(message))),
              !.rethrown = message,
              !.pc = "failed"]

\* Object.values(state.sessions).find(s => s.id === result.sessionId)
find(sessions, sessionId) == sessionId \in sessions

\* a poll that gives up one check late
pollForSessionLate(s) ==
    IF find(s.sessions, s.sessionId)
    THEN [s EXCEPT !.checks = @ + 1, !.navigations = @ + 1, !.timer = FALSE,
                   !.route = s.sessionId, !.pc = "navigated"]
    ELSE IF s.attempts + 1 <= maxAttempts
    THEN [s EXCEPT !.checks = @ + 1, !.attempts = @ + 1, !.timer = TRUE,
                   !.pc = "waiting"]
    ELSE [s EXCEPT !.checks = @ + 1, !.attempts = @ + 1, !.timer = FALSE,
                   !.alerts = Append(@, SessionStarted), !.pc = "alerted"]

\* pollForSession: one check of storage; it navigates when the session is
\* there, else counts the attempt and sets the next timer or gives up.
pollForSession(s) ==
    IF find(s.sessions, s.sessionId)
    THEN [s EXCEPT !.checks = @ + 1, !.navigations = @ + 1, !.timer = FALSE,
                   !.route = s.sessionId, !.pc = "navigated"]
    ELSE IF s.attempts + 1 < maxAttempts
    THEN [s EXCEPT !.checks = @ + 1, !.attempts = @ + 1, !.timer = TRUE,
                   !.pc = "waiting"]
    ELSE [s EXCEPT !.checks = @ + 1, !.attempts = @ + 1, !.timer = FALSE,
                   !.alerts = Append(@, SessionStarted), !.pc = "alerted"]

\* What a step of the screen leaves alone.
Screen ==
    /\ returned' = NoReturn
    /\ fetched' = <<>>
    /\ Idle
    /\ UNCHANGED <<entity, arrived, agentState, batch>>

\* handleStartSession(path) up to its await: without machineId it returns
HandleStartSession(hasMachineId) ==
    /\ screen.pc = "idle"
    /\ screen' = [screen EXCEPT !.pc = IF hasMachineId THEN "spawning" ELSE "returned"]
    /\ lastOp' = Op("handleStartSession", IF hasMachineId THEN "machine" ELSE "", 0)
    /\ thrown' = ""
    /\ Screen

\* A session reaches storage.
SessionAppears(id) ==
    /\ screen.pc \in {"idle", "spawning", "waiting"}
    /\ id \notin screen.sessions
    /\ screen' = [screen EXCEPT !.sessions = @ \cup {id}]
    /\ lastOp' = Op("sessionAppears", id, 0)
    /\ thrown' = ""
    /\ Screen

\* spawnRemoteSession resolved: with a sessionId the first check runs at
\* once, without one ("") the error is thrown into the catch block
SpawnResolved(sessionId) ==
    /\ screen.pc = "spawning"
    /\ screen' = IF sessionId # ""
                 THEN pollForSession([screen EXCEPT !.sessionId = sessionId])
                 ELSE catch(screen, NoSessionId)
    /\ lastOp' = Op("spawnResolved", sessionId, 0)
    /\ thrown' = screen'.rethrown
    /\ Screen

\* spawnRemoteSession rejected
SpawnRejected(message) ==
    /\ screen.pc = "spawning"
    /\ screen' = catch(screen, message)
    /\ lastOp' = Op("spawnRejected", message, 0)
    /\ thrown' = screen'.rethrown
    /\ Screen

\* setTimeout(pollForSession, pollInterval) fires
PollTimer ==
    /\ screen.pc = "waiting" /\ screen.timer
    /\ screen' = pollForSession([screen EXCEPT !.elapsed = @ + pollInterval])
    /\ lastOp' = Op("pollTimer", "", 0)
    /\ thrown' = ""
    /\ Screen

(* --------------------------- specifications --------------------------- *)

Connection ==
    \/ \E e \in Endpoints, t \in Tokens, k \in Keys : Initialize(e, t, k)
    \/ Connect
    \/ Disconnect
    \/ \E t \in Tokens : UpdateToken(t)
    \/ \E r \in BOOLEAN : SocketConnect(r)
    \/ SocketDisconnect
    \/ SocketConnectError
    \/ SocketError

Listeners ==
    \/ \E l \in ListenerIds : OnReconnected(l)
    \/ \E l \in ListenerIds : OffReconnected(l)
    \/ \E l \in ListenerIds : OnStatusChange(l)
    \/ \E l \in ListenerIds : OffStatusChange(l)

Messages ==
    \/ \E e \in Events, h \in ListenerIds : OnMessage(e, h)
    \/ \E e \in Events, h \in ListenerIds : UnsubscribeMessage(e, h)
    \/ \E e \in Events, h \in ListenerIds : OffMessage(e, h)
    \/ \E e \in Events : SocketAny(e)

Rpcs ==
    \/ \E c \in ScopeIds, m \in Methods, p \in Plaintexts : Rpc(c, m, p)
    \/ \E c \in ScopeIds, m \in Methods, p \in Plaintexts : DaemonRpc(c, m, p)
    \/ \E id \in 1..MaxCalls, r \in ServerResults : Ack(id, TRUE, r, "")
    \/ \E id \in 1..MaxCalls, e \in ServerErrors : Ack(id, FALSE, Null, e)
    \/ \E id \in 1..MaxCalls : Timeout(id)

Metadata ==
    \/ \E v \in 0..MaxVersion : UpdateMachineMetadata(v)
    \/ MetadataAck
    \/ MetadataTimeout
    \/ ServerUpdate

Entity ==
    \E f \in Fields, v \in 0..MaxVersion, x \in Bodies : ApplyUpdate(f, v, x)

Encryptors ==
    \/ \E c \in Schemes, k \in Keys, items \in Batches : Encrypt(c, k, items)
    \/ \E k \in Keys, items \in Batches : ReceiveAes(k, items)
    \/ \E i \in 1..MaxItems : Corrupt(i)
    \/ \E k \in Keys, f \in AesFailures : Decrypt(k, f)

Api ==
    \/ \E e \in Events, d \in Plaintexts : Send(e, d)
    \/ \E p \in Paths, o \in 1..Len(RequestOptions) : Request(p, o)
    \/ \E t \in Tokens \cup {NoCredentials} : SetCredentials(t)

Agent ==
    \E raw \in RawAgentStates : ParseAgentState(raw)

MachineScreen ==
    \/ \E m \in BOOLEAN : HandleStartSession(m)
    \/ \E id \in SessionIds : SessionAppears(id)
    \/ \E id \in SessionIds \cup {""} : SpawnResolved(id)
    \/ \E e \in SpawnErrors : SpawnRejected(e)
    \/ PollTimer

NextConn == Connection \/ Listeners
NextMsg == Connection \/ Messages
NextRpc == Connection \/ Rpcs
Next ==
    Connection \/ Listeners \/ Messages \/ Rpcs \/ Metadata \/ Entity \/ Encryptors \/ Api
    \/ Agent \/ MachineScreen

\* connection management with status and reconnected listeners
SpecConn == Init /\ [][NextConn]_vars
\* connection management with message handlers and inbound events
SpecMsg == Init /\ [][NextMsg]_vars
\* connection management with the two RPC shapes
SpecRpc == Init /\ [][NextRpc]_vars
\* connection management with the machine metadata update
NextMeta == Connection \/ Metadata
SpecMeta == Init /\ [][NextMeta]_vars

\* connection management with status listeners, where the server accepts a
\* connection attempt of a socket that keeps trying
NextLive ==
    \/ Connection
    \/ \E l \in ListenerIds : OnStatusChange(l)
    \/ \E l \in ListenerIds : OffStatusChange(l)

SpecLive ==
    Init /\ [][NextLive]_vars /\ WF_vars(\E r \in BOOLEAN : SocketConnect(r))

\* the versioned fields of Session and Machine under incoming updates
NextEntity == Entity
SpecEntity == Init /\ [][NextEntity]_vars

\* the three encryptors over batches of items
NextCrypto == Encryptors
SpecCrypto == Init /\ [][NextCrypto]_vars

\* connection management with send and the HTTP request helper
NextApi == Connection \/ Api
SpecApi == Init /\ [][NextApi]_vars

\* agent states received and parsed
NextAgent == Agent
SpecAgent == Init /\ [][NextAgent]_vars

\* connection management with one registration of each kind and inbound
\* events
FirstListener == CHOOSE l \in ListenerIds : \A k \in ListenerIds : l <= k

NextReg ==
    \/ Connection
    \/ OnStatusChange(FirstListener)
    \/ OnReconnected(FirstListener)
    \/ \E e \in Events : OnMessage(e, FirstListener)
    \/ \E e \in Events : SocketAny(e)

SpecReg == Init /\ [][NextReg]_vars

\* connection management with the calls that emit on the socket
NextCalls ==
    \/ Connection
    \/ \E c \in ScopeIds, m \in Methods, p \in Plaintexts : Rpc(c, m, p)
    \/ \E c \in ScopeIds, m \in Methods, p \in Plaintexts : DaemonRpc(c, m, p)
    \/ \E e \in Events, d \in Plaintexts : Send(e, d)

SpecCalls == Init /\ [][NextCalls]_vars

\* the machine screen starting sessions; a timer that is set fires
NextScreen == MachineScreen
SpecScreen ==
    Init /\ [][NextScreen]_vars /\ WF_vars(PollTimer)

\* every operation
Spec == Init /\ [][Next]_vars

(* ------------------------------- claims -------------------------------- *)

StatusCallsOf(l, inv) == SelectSeq(inv, LAMBDA c : c.who = "status" /\ c.id = l)
CountCalls(inv, c) == Cardinality({i \in 1..Len(inv) : inv[i] = c})
GenericErrors == {"RPC call failed", "Daemon RPC call failed"}

\* C1: daemonRpc called while there is no active connection (no socket
\* object, or a socket object whose status is not 'connected') fails at once
\* with 'Socket not connected' and emits nothing; called with a connection but
\* no encryption context it fails with 'Encryption not initialized' and emits
\* nothing.
C1_DaemonRpcFailsFast ==
    lastOp.name = "daemonRpc" =>
        /\ (~socket.exists \/ currentStatus # "connected") =>
               (thrown = "Socket not connected" /\ emitted = <<>>)
        /\ (socket.exists /\ currentStatus = "connected"
                /\ encryption = NoEncryption) =>
               (thrown = "Encryption not initialized" /\ emitted = <<>>)

\* C2: every 'rpc-call' emitted by rpc or daemonRpc carries encryptRaw(params)
\* and never the plaintext params, and every value a call resolves with is
\* decryptRaw of the result of an {ok: true} acknowledgment.
C2_OnlyCiphertextOnWire ==
    /\ \A i \in 1..Len(emitted) :
          /\ emitted[i].msg.event = "rpc-call"
          /\ emitted[i].msg.params = encryptRaw(encryption, emitted[i].plain)
          /\ emitted[i].msg.params.cipher
          /\ emitted[i].msg.params # emitted[i].plain
    /\ outcome.state = "resolved" =>
          /\ delivered.ok /\ ~delivered.timedOut
          /\ outcome.value = decryptRaw(encryption, delivered.result)

\* C2 witness: a second call is emitted after a first one resolved.
C2_Witness ==
    /\ Len(calls) = 2 /\ calls[1].state = "resolved"
    /\ Len(emitted) = 1 /\ emitted[1].msg.params.cipher

\* C3: on a socket 'connect' event with recovered false every registered
\* reconnected listener is invoked exactly once, after every status listener
\* was told 'connected'; with recovered true no reconnected listener is invoked.
C3_ReconnectedFanOut ==
    lastOp.name = "connect_event" =>
        /\ \A l \in ListenerIds :
              CountCalls(invoked, ReconnectedCall(l)) =
                 IF lastOp.a = "fresh" /\ l \in Elems(reconnectedListeners)
                 THEN 1 ELSE 0
        /\ \A l \in Elems(statusListeners) :
              CountCalls(invoked, StatusCall(l, "connected")) = 1
        /\ \A i, j \in 1..Len(invoked) :
              (invoked[i].who = "status" /\ invoked[j].who = "reconnected") => i < j
        /\ currentStatus = "connected"

\* C3 witness: a fresh connection with two reconnected listeners and a status listener.
C3_Witness ==
    /\ lastOp = Op("connect_event", "fresh", 0)
    /\ Len(reconnectedListeners) = 2
    /\ Len(statusListeners) >= 1
    /\ Len(invoked) = Len(statusListeners) + 2

\* C4: onStatusChange(listener) invokes the listener exactly once, with the
\* current status, during registration, whatever the status is, and leaves
\* it registered for the later transitions.
C4_StatusReplay ==
    lastOp.name = "onStatusChange" =>
        /\ invoked = <<StatusCall(lastOp.n, currentStatus)>>
        /\ CountCalls(statusListeners, lastOp.n) = 1
        /\ transitions = <<>>

\* C4 witness: a listener registered while the status is 'connected'.
C4_Witness ==
    /\ lastOp.name = "onStatusChange"
    /\ currentStatus = "connected"
    /\ invoked = <<StatusCall(lastOp.n, "connected")>>

\* What each status listener hears from a token rotation that starts in status cur.
RotationHeard(l, cur) ==
    IF cur = "disconnected"
    THEN <<StatusCall(l, "connecting")>>
    ELSE <<StatusCall(l, "disconnected"), StatusCall(l, "connecting")>>

UpdateTokenNoOp ==
    /\ UNCHANGED <<socket, config, encryption, messageHandlers, reconnectedListeners,
                   statusListeners, currentStatus, calls>>
    /\ invoked' = <<>>
    /\ transitions' = <<>>

C6_StatusPathAndConnect ==
    [][/\ \A i \in 1..Len(transitions') :
            /\ transitions'[i][2] = "connecting" => transitions'[i][1] = "disconnected"
            /\ transitions'[i][2] = "connected" => transitions'[i][1] = "connecting"
       /\ (lastOp'.name = "connect" /\ config.set
              /\ currentStatus \in {"error", "disconnected"}) =>
            currentStatus' = "connecting"]_vars

\* C6 amended: the status enters 'connecting' only from 'disconnected' and only
\* when a socket is created; it enters 'connected' only on a socket 'connect'
\* event, from 'connecting', 'disconnected' or 'error'; it enters 'error' only
\* while a socket exists; connect() makes the status 'connecting' exactly when a
\* config is set and no socket object exists, and otherwise (status 'error', or
\* 'disconnected' with the socket object still there) changes nothing.
C6_StatusTransitions ==
    [][/\ \A i \in 1..Len(transitions') :
            /\ transitions'[i][1] # transitions'[i][2]
            /\ transitions'[i][2] = "connecting" =>
                  /\ transitions'[i][1] = "disconnected"
                  /\ socket'.exists /\ ~socket'.connected
                  /\ lastOp'.name \in {"initialize", "connect", "updateToken"}
            /\ transitions'[i][2] = "connected" =>
                  /\ transitions'[i][1] \in {"connecting", "disconnected", "error"}
                  /\ lastOp'.name = "connect_event"
            /\ transitions'[i][2] = "error" => socket.exists
       /\ lastOp'.name = "connect" =>
            IF config.set /\ ~socket.exists
            THEN /\ currentStatus = "disconnected"
                 /\ currentStatus' = "connecting"
                 /\ socket' = io(config)
            ELSE /\ UNCHANGED <<socket, config, currentStatus>>
                 /\ invoked' = <<>>
                 /\ transitions' = <<>>
       /\ currentStatus \in {"connecting", "connected", "error"} => socket.exists]_vars

\* C6 witness: connect() was called in status 'error' and nothing changed.
C6_Witness ==
    /\ lastOp.name = "connect"
    /\ currentStatus = "error"
    /\ socket.exists
    /\ transitions = <<>>

C8_ServerErrorVerbatim ==
    (outcome.id # 0 /\ ~delivered.timedOut /\ ~delivered.ok) =>
        /\ outcome.state = "rejected"
        /\ IF delivered.error # "" THEN outcome.error = delivered.error
           ELSE outcome.error \in GenericErrors
        /\ emitted = <<>>

\* C9: rpc on an existing socket emits exactly one 'rpc-call', awaiting an
\* acknowledgment without timeout, with method '<sessionId>:<method>'; an rpc
\* call settles with the answer to its own packet: {ok: true, result} resolves
\* it with decryptRaw(result), {ok: false} fails it with 'RPC call failed',
\* whatever the order of the answers.
C9_RpcOwnResult ==
    /\ (lastOp.name = "rpc" /\ socket.exists) =>
          /\ thrown = ""
          /\ Len(emitted) = 1
          /\ emitted[1].msg.event = "rpc-call"
          /\ emitted[1].msg.method = emitted[1].scope \o ":" \o emitted[1].method
          /\ emitted[1].msg.timeout = 0
          /\ emitted[1].msg.id = Len(calls)
          /\ calls[Len(calls)] = NewCall("rpc")
    /\ outcome.id # 0 =>
          /\ emitted = <<>>
          /\ calls[outcome.id].kind = "rpc" =>
                /\ delivered.id = outcome.id
                /\ ~delivered.timedOut
                /\ IF delivered.ok
                   THEN /\ outcome.state = "resolved"
                        /\ outcome.value = decryptRaw(encryption, delivered.result)
                   ELSE /\ outcome.state = "rejected"
                        /\ outcome.error = "RPC call failed"

\* C9 witness: of two outstanding rpc calls the second is answered first.
C9_Witness ==
    /\ Len(calls) = 2
    /\ calls[1] = NewCall("rpc")
    /\ calls[2].kind = "rpc" /\ calls[2].state = "resolved"
    /\ outcome.id = 2 /\ outcome.value # Null

\* C10: an inbound event invokes at most one handler, the one registered last
\* for its name: a handler that was replaced is not invoked; an event without
\* handler invokes nothing, raises nothing and changes no state.
C10_SingleDispatch ==
    [][/\ lastOp'.name = "onMessage" =>
            /\ messageHandlers'[lastOp'.a] = lastOp'.n
            /\ replaced'[lastOp'.a] = messageHandlers[lastOp'.a]
       /\ lastOp'.name = "onAny" =>
            /\ Len(invoked') <= 1
            /\ messageHandlers[lastOp'.a] # 0 =>
                  invoked' = <<HandlerCall(messageHandlers[lastOp'.a], lastOp'.a)>>
            /\ messageHandlers[lastOp'.a] = 0 => invoked' = <<>>
            /\ \A i \in 1..Len(invoked') :
                  replaced[lastOp'.a] # messageHandlers[lastOp'.a] =>
                      invoked'[i].id # replaced[lastOp'.a]
            /\ thrown' = ""
            /\ UNCHANGED <<socket, config, encryption, messageHandlers,
                           reconnectedListeners, statusListeners, currentStatus,
                           calls, replaced>>]_vars

\* C10 witness: an event arrived after its handler 1 was replaced by handler 2.
C10_Witness ==
    /\ lastOp.name = "onAny"
    /\ replaced[lastOp.a] = 1
    /\ messageHandlers[lastOp.a] = 2
    /\ invoked = <<HandlerCall(2, lastOp.a)>>

\* C11: a connection error leaves every registered status listener told
\* 'error', and the socket keeps retrying: whenever the status is 'error' or
\* 'disconnected' on a socket that lost or failed its connection, the status
\* eventually becomes 'connected' again, unless disconnect() removes the socket.
C11_RetriesUntilConnected ==
    /\ [](lastOp.name = "connect_error_event" =>
            /\ currentStatus = "error"
            /\ \A l \in Elems(statusListeners) : heard[l] = "error")
    /\ (socket.exists /\ ~socket.connected
            /\ currentStatus \in {"error", "disconnected"})
          ~> (currentStatus = "connected" \/ ~socket.exists)

\* C11 witness: a listener hears the socket connect after a connection error.
C11_Witness ==
    /\ lastOp.name = "connect_event"
    /\ transitions = << <<"error", "connected">> >>
    /\ Len(statusListeners) >= 1
    /\ \A l \in Elems(statusListeners) : heard[l] = "connected"

\* C12: updateMachineMetadata answered while the server's version differs from
\* expectedVersion returns 'version-mismatch' and changes neither the server's
\* version nor any local state; answered while it matches, it returns
\* 'success' with the new version; called without a connected socket it fails
\* with 'Socket not connected' and sends nothing.
C12_MetadataCompareAndSwap ==
    [][/\ lastOp'.name = "updateMachineMetadata" =>
            /\ (~socket.exists \/ ~socket.connected) =>
                  /\ thrown' = "Socket not connected"
                  /\ emitted' = <<>>
                  /\ metaCall' = metaCall
            /\ (socket.exists /\ socket.connected) =>
                  /\ thrown' = ""
                  /\ Len(emitted') = 1
                  /\ emitted'[1].event = "machine-update-metadata"
                  /\ emitted'[1].expectedVersion = lastOp'.n
            /\ UNCHANGED <<serverVersion, entity, socket, config, currentStatus>>
       /\ lastOp'.name = "metadataAck" =>
            /\ IF serverVersion # metaCall.expected
               THEN /\ returned'.result = "version-mismatch"
                    /\ serverVersion' = serverVersion
               ELSE /\ returned'.result = "success"
                    /\ returned'.version = serverVersion'
                    /\ serverVersion' = serverVersion + 1
            /\ returned'.result # "error"
            /\ thrown' = ""
            /\ UNCHANGED <<entity, socket, config, currentStatus>>]_vars

\* C12 witness: an update expecting a version the server has left behind.
C12_Witness ==
    /\ lastOp.name = "metadataAck"
    /\ returned.result = "version-mismatch"
    /\ lastOp.n < serverVersion

\* C13: an incoming update of a versioned field is accepted only if its version
\* is strictly greater than the stored one, so stored versions never decrease;
\* whatever the arrival order, each field ends at the greatest version received
\* with the value that came with it (for two updates v1 < v2: at v2 with the
\* value of v2).
UpdatesOf(f) == {i \in 1..Len(arrived) : arrived[i].field = f /\ arrived[i].version > 0}
Winner(f) ==
    CHOOSE i \in UpdatesOf(f) :
        \A j \in UpdatesOf(f) :
            \/ arrived[j].version < arrived[i].version
            \/ arrived[j].version = arrived[i].version /\ i <= j

C13_VersionGate ==
    /\ [](\A f \in Fields :
            IF UpdatesOf(f) = {}
            THEN entity[f] = [version |-> 0, value |-> 0]
            ELSE /\ entity[f].version = arrived[Winner(f)].version
                 /\ entity[f].value = arrived[Winner(f)].value)
    /\ [][\A f \in Fields :
            /\ entity'[f].version >= entity[f].version
            /\ entity'[f] # entity[f] =>
                  /\ lastOp'.name = "applyUpdate" /\ lastOp'.a = f
                  /\ lastOp'.n > entity[f].version
                  /\ entity'[f].version = lastOp'.n]_vars

\* the newer update arrived first, the older one was discarded
C13_Witness ==
    /\ Len(arrived) = 2
    /\ arrived[1].field = arrived[2].field
    /\ arrived[2].version > 0
    /\ arrived[2].version < arrived[1].version
    /\ arrived[1].value # arrived[2].value
    /\ entity[arrived[1].field] =
          [version |-> arrived[1].version, value |-> arrived[1].value]

\* C14: a session rpc call carries no timeout and stays pending until its own
\* acknowledgment arrives: nothing else (no timeout, no disconnect, reconnect
\* or token rotation) completes it, with a result or with a failure, and a
\* call whose acknowledgment can no longer arrive stays pending for good.
C14_RpcWaitsForAck ==
    [][/\ lastOp'.name = "rpc" =>
            \A i \in 1..Len(emitted') : emitted'[i].msg.timeout = 0
       /\ \A id \in 1..Len(calls) :
            (calls[id].kind = "rpc" /\ calls[id].state = "pending") =>
                /\ calls'[id].state # "pending" =>
                      /\ lastOp'.name = "ack"
                      /\ delivered'.id = id
                      /\ ~delivered'.timedOut
                      /\ calls[id].live
                      /\ outcome'.id = id
                /\ calls'[id].state = "pending" => outcome'.id # id
                /\ ~calls[id].live => calls'[id] = calls[id]]_vars

\* an rpc call still pending after its socket was replaced and the new one
\* connected
C14_Witness ==
    /\ \E id \in 1..Len(calls) :
          calls[id].kind = "rpc" /\ calls[id].state = "pending" /\ ~calls[id].live
    /\ socket.exists /\ socket.connected
    /\ currentStatus = "connected"
    /\ lastOp.name = "timeout"

\* C15: for each of the three schemes, decrypt of a batch of N ciphertexts of
\* which exactly one is corrupted returns N results in the original order,
\* null exactly at the corrupted position and the original plaintext at every
\* other; a failing item never aborts the batch nor escapes as an exception.
Corrupted == {i \in 1..Len(batch.cipher) : ~batch.cipher[i].intact}

C16_RoundTrip ==
    (/\ batch.stage = "decrypted"
     /\ batch.scheme \in {"secretbox", "box"}
     /\ batch.by = batch.key
     /\ Corrupted = {}) =>
        /\ ~batch.thrown
        /\ batch.out = batch.plain

\* a box batch of two different items made the round trip
C16_Witness ==
    /\ batch.stage = "decrypted" /\ lastOp.name = "decrypt"
    /\ batch.scheme = "box" /\ batch.by = batch.key
    /\ Corrupted = {}
    /\ Len(batch.plain) = 2 /\ batch.plain[1] # batch.plain[2]
    /\ batch.out = batch.plain

\* C17: request(path, options) fails with 'SyncSocket not initialized' when no
\* config is set and with 'No authentication credentials' when the store
\* holds none, issuing no request; otherwise it issues one request to
\* endpoint+path with 'Authorization: Bearer <token of the store>', whatever
\* options the caller passed, an Authorization header of its own included.
C17_BearerAlways ==
    lastOp.name = "request" =>
        IF ~config.set
        THEN thrown = "SyncSocket not initialized" /\ fetched = <<>>
        ELSE IF credentials = NoCredentials
        THEN thrown = "No authentication credentials" /\ fetched = <<>>
        ELSE /\ thrown = ""
             /\ Len(fetched) = 1
             /\ fetched[1].url = config.endpoint \o lastOp.a
             /\ fetched[1].authorization = "Bearer " \o credentials

\* C18: send(event, data), whenever a socket object exists and whatever the
\* status, emits exactly one event with no acknowledgment, returns true at
\* once and changes no transport state.
C18_SendFireAndForget ==
    [][(lastOp'.name = "send" /\ socket.exists) =>
          /\ thrown' = ""
          /\ Len(emitted') = 1
          /\ emitted'[1].event = lastOp'.a
          /\ ~emitted'[1].ack /\ emitted'[1].timeout = 0
          /\ returned' = True
          /\ invoked' = <<>> /\ transitions' = <<>>
          /\ UNCHANGED <<socket, config, encryption, currentStatus, statusListeners,
                         reconnectedListeners, messageHandlers, calls, metaCall>>]_vars

\* an event sent on a socket that failed to connect
C18_Witness ==
    /\ lastOp.name = "send"
    /\ socket.exists /\ ~socket.connected /\ currentStatus = "error"
    /\ Len(emitted) = 1 /\ returned = True

\* C19: in every accepted agent state no request id is in both requests and
\* completedRequests; an id only ever moves from requests to
\* completedRequests, and an id that reached completedRequests never
\* reappears in requests.
C19_RequestsDisjoint ==
    /\ [](agentState.parsed =>
            agentState.requests \cap agentState.completedRequests = {})
    /\ [][(agentState.parsed /\ agentState'.parsed) =>
            /\ agentState.completedRequests \cap agentState'.requests = {}
            /\ (agentState.requests \ agentState'.requests)
                  \subseteq agentState'.completedRequests]_vars

\* C20: status listeners are notified exactly when the status value changes:
\* each change invokes every registered listener exactly once, in
\* registration order within the step, with the new status; an event that
\* sets the status it already has invokes no listener; no listener ever
\* receives the same status twice in succession.
StatusCallsIn(inv) == SelectSeq(inv, LAMBDA c : c.who = "status")

\* the calls the changes trans owe to the listeners: one per change and listener
ChangeCalls(listeners, trans) ==
    [k \in 1..(Len(trans) * Len(listeners)) |->
        StatusCall(listeners[((k - 1) % Len(listeners)) + 1],
                   trans[((k - 1) \div Len(listeners)) + 1][2])]

\* the status listener l was told last before the i-th invocation of inv
ToldBefore(l, inv, i) ==
    LET earlier == {j \in 1..(i - 1) : inv[j].who = "status" /\ inv[j].id = l}
    IN  IF earlier = {} THEN heard[l]
        ELSE inv[CHOOSE j \in earlier : \A k \in earlier : k <= j].arg

NotifiedOnChange ==
    /\ \A i \in 1..Len(transitions') : transitions'[i][1] # transitions'[i][2]
    /\ IF transitions' = <<>> THEN currentStatus' = currentStatus
       ELSE /\ transitions'[1][1] = currentStatus
            /\ transitions'[Len(transitions')][2] = currentStatus'
    /\ lastOp'.name # "onStatusChange" =>
          StatusCallsIn(invoked') = ChangeCalls(statusListeners, transitions')
    /\ (/\ lastOp'.name \in {"connect_error_event", "error_event"}
        /\ currentStatus = "error") => StatusCallsIn(invoked') = <<>>
    /\ (lastOp'.name = "disconnect" /\ currentStatus = "disconnected") =>
          StatusCallsIn(invoked') = <<>>

NoRepeat ==
    \A i \in 1..Len(invoked') :
        invoked'[i].who = "status" =>
            invoked'[i].arg # ToldBefore(invoked'[i].id, invoked', i)

C20_NeverSameStatusTwice == [][NotifiedOnChange /\ NoRepeat]_vars

\* C20 as amended: the replay of onStatusChange is the one notification made
\* without a change, and the one that can repeat a status.
C20_StatusChangeFanOut ==
    /\ [](\A l \in Elems(statusListeners) : heard[l] = currentStatus)
    /\ [][/\ NotifiedOnChange
          /\ lastOp'.name # "onStatusChange" => NoRepeat
          /\ lastOp'.name = "onStatusChange" =>
                /\ invoked' = <<StatusCall(lastOp'.n, currentStatus)>>
                /\ transitions' = <<>>]_vars

\* a second connect_error in status 'error' with two listeners registered
C20_Witness ==
    /\ lastOp.name = "connect_error_event"
    /\ currentStatus = "error"
    /\ transitions = <<>> /\ invoked = <<>>
    /\ Len(statusListeners) = 2

\* C21: between operations, after any sequence of initialize, connect,
\* disconnect, updateToken and socket events: when no socket object exists the
\* status is 'disconnected', and when the status is 'connecting', 'connected'
\* or 'error' a socket object exists.
C21_StatusTracksSocket ==
    /\ ~socket.exists => currentStatus = "disconnected"
    /\ currentStatus \in {"connecting", "connected", "error"} => socket.exists

\* disconnect() took the transport from 'error' to 'disconnected'
C21_Witness ==
    /\ lastOp.name = "disconnect"
    /\ ~socket.exists
    /\ transitions = << <<"error", "disconnected">> >>
    /\ currentStatus = "disconnected"

\* C22: at most one socket is open at any time: connect() while a socket
\* object exists (whatever the status) or while no config is set creates no
\* socket, makes no status change and leaves all state as it is, and a socket
\* is created only once the previous one was disconnected and cleared.
C22_SingleSocket ==
    /\ [](opened <= 1 /\ (socket.exists <=> opened = 1))
    /\ [][/\ (lastOp'.name = "connect" /\ (socket.exists \/ ~config.set)) =>
               /\ UNCHANGED <<socket, config, encryption, currentStatus,
                              messageHandlers, reconnectedListeners, statusListeners,
                              calls, metaCall, opened>>
               /\ invoked' = <<>> /\ transitions' = <<>> /\ emitted' = <<>>
          /\ opened' > opened =>
               /\ ~socket.exists /\ opened = 0
               /\ lastOp'.name \in {"initialize", "connect"}
          /\ (socket.exists /\ socket'.exists /\ socket'.token # socket.token) =>
               /\ lastOp'.name = "updateToken"
               /\ opened' = opened]_vars

\* connect() called on a connected transport
C22_Witness ==
    /\ lastOp.name = "connect"
    /\ socket.exists /\ socket.connected /\ currentStatus = "connected"
    /\ opened = 1
    /\ transitions = <<>> /\ invoked = <<>>

\* C23: whenever a socket is open, the token and the endpoint it was opened
\* with are the configured token and endpoint, after any sequence of
\* initialize (a second initialize with another config included), connect,
\* disconnect and updateToken.
C23_SocketMatchesConfig ==
    socket.exists =>
        /\ config.set
        /\ socket.token = config.token
        /\ socket.endpoint = config.endpoint

\* C24: registrations outlive the socket: message handlers, status listeners
\* and reconnected listeners registered before a disconnect()/connect() cycle
\* or a token rotation are still registered afterwards, and the events, the
\* status changes and the fresh connections of the new socket reach them
\* without a new registration.
C24_RegistrationsOutliveSocket ==
    [][/\ lastOp'.name \notin {"onMessage", "onStatusChange", "onReconnected"} =>
            UNCHANGED <<messageHandlers, statusListeners, reconnectedListeners>>
       /\ lastOp'.name = "onAny" =>
            invoked' = IF messageHandlers[lastOp'.a] # 0
                       THEN <<HandlerCall(messageHandlers[lastOp'.a], lastOp'.a)>>
                       ELSE <<>>
       /\ \A i \in 1..Len(transitions') :
            \A l \in Elems(statusListeners) :
                \E k \in 1..Len(invoked') :
                    invoked'[k] = StatusCall(l, transitions'[i][2])
       /\ (lastOp'.name = "connect_event" /\ lastOp'.a = "fresh") =>
            \A l \in Elems(reconnectedListeners) :
                \E k \in 1..Len(invoked') : invoked'[k] = ReconnectedCall(l)]_vars

\* a token rotation with a registration of each kind in place: the status
\* listener heard the old socket go and the new one start connecting
C24_Witness ==
    /\ lastOp.name = "updateToken"
    /\ socket.exists /\ socket.token = lastOp.a
    /\ messageHandlers["update"] # 0
    /\ Len(reconnectedListeners) = 1
    /\ Len(statusListeners) = 1
    /\ invoked = <<StatusCall(statusListeners[1], "disconnected"),
                   StatusCall(statusListeners[1], "connecting")>>

\* C25: handler removal is by event name only: the unsubscribe function
\* returned by onMessage(e, h1), and offMessage(e, h) for any h, remove
\* whatever handler is registered for e; so h1's unsubscribe called after
\* onMessage(e, h2) leaves e without handler, and h2 is invoked no more.
C25_RemovalByName ==
    [][/\ lastOp'.name \in {"unsubscribeMessage", "offMessage"} =>
            /\ messageHandlers' = [messageHandlers EXCEPT ![lastOp'.a] = 0]
            /\ replaced'[lastOp'.a] = messageHandlers[lastOp'.a]
       /\ (lastOp'.name = "onAny" /\ messageHandlers[lastOp'.a] = 0) =>
            invoked' = <<>>]_vars

\* the unsubscribe function of handler 1 has just removed handler 2
C25_Witness ==
    /\ lastOp.name = "unsubscribeMessage"
    /\ lastOp.n = 1
    /\ replaced[lastOp.a] = 2
    /\ messageHandlers[lastOp.a] = 0

\* C26: rpc and send check no precondition: called while no socket object
\* exists (before initialize or after disconnect()), each fails by raising an
\* error, emits nothing and leaves status, config, listeners and handlers as
\* they are; unlike daemonRpc, the error is not 'Socket not connected'.
C26_NoPreconditionCheck ==
    [][/\ (lastOp'.name \in {"rpc", "send"} /\ ~socket.exists) =>
            /\ thrown' = TypeError
            /\ thrown' # "Socket not connected"
            /\ emitted' = <<>>
            /\ returned' = NoReturn
            /\ invoked' = <<>> /\ transitions' = <<>>
            /\ UNCHANGED <<socket, config, encryption, currentStatus, statusListeners,
                           reconnectedListeners, messageHandlers, calls>>
       /\ (lastOp'.name = "daemonRpc" /\ ~socket.exists) =>
            /\ thrown' = "Socket not connected"
            /\ emitted' = <<>>]_vars

\* rpc called after disconnect() on an initialized transport
C26_Witness ==
    /\ lastOp.name = "rpc"
    /\ ~socket.exists /\ config.set /\ encryption # NoEncryption
    /\ thrown = TypeError
    /\ emitted = <<>>

\* C27: in handleStartSession, after a spawn result with a sessionId the poll
\* always terminates: storage is checked at most 20 times, 100 ms apart; the
\* screen navigates at most once and only on a check that finds the session,
\* after which no check is scheduled; the 'Session started' alert is shown
\* exactly when all 20 checks fail; a spawn result without sessionId or a
\* failed spawn shows an error alert and rethrows without polling.
Shown(s, title) == {i \in 1..Len(s.alerts) : s.alerts[i].title = title}

C27_PollTerminates ==
    /\ [](LET s == screen
          IN  /\ s.checks <= maxAttempts
              /\ s.navigations <= 1
              /\ s.checks >= 1 => s.elapsed = pollInterval * (s.checks - 1)
              /\ s.navigations = 1 =>
                    (~s.timer /\ s.pc = "navigated" /\ s.route = s.sessionId)
              /\ s.navigations = 0 => s.route = ""
              /\ Shown(s, "Session started") # {} <=>
                    (s.checks = maxAttempts /\ s.navigations = 0)
              /\ Len(s.alerts) <= 1
              /\ s.pc = "failed" <=> Shown(s, "Error") # {}
              /\ s.pc = "failed" =>
                    (s.rethrown # "" /\ s.checks = 0 /\ ~s.timer)
              /\ s.timer <=> s.pc = "waiting")
    /\ [][/\ screen'.navigations > screen.navigations =>
              /\ screen'.sessionId \in screen.sessions
              /\ screen'.checks = screen.checks + 1
          /\ screen'.checks > screen.checks =>
              lastOp'.name \in {"spawnResolved", "pollTimer"}
          /\ lastOp'.name = "spawnResolved" =>
              IF lastOp'.a # "" THEN screen'.checks = 1
              ELSE screen'.pc = "failed" /\ thrown' = NoSessionId
          /\ lastOp'.name = "spawnRejected" =>
              screen'.pc = "failed" /\ thrown' = lastOp'.a
          /\ screen.pc \in {"navigated", "alerted", "failed"} =>
              screen' = screen]_vars
    /\ (screen.pc = "waiting") ~> (screen.pc \in {"navigated", "alerted"})

\* all 20 checks failed, 1900 ms after the first: the alert is up
C27_Witness ==
    /\ screen.pc = "alerted"
    /\ screen.checks = maxAttempts
    /\ screen.elapsed = pollInterval * (maxAttempts - 1)
    /\ screen.alerts = <<SessionStarted>>
    /\ screen.navigations = 0

====
